---------------------------- MODULE Spec2Model ----------------------------
(***************************************************************************)
(* A model of the circle-covering engine of beat_planner                   *)
(* (src/territory_manager.py, class TerritoryManager).                     *)
(*                                                                         *)
(* Geometry.  Every merchant of the model lies on the equator              *)
(* (merchant_latitude = 0) and merchant_longitude is a whole number of     *)
(* length units.  For two such points the haversine formula of             *)
(* haversine_distance / _calculate_distances_vectorized gives              *)
(*     a = sin(dlon/2)^2,  c = 2*asin(sqrt(a)) = |dlon|,  d = R*|dlon|,    *)
(* so distance is the absolute difference of the longitudes (in units of   *)
(* R radians-per-unit).  A circle centre is a mean of longitudes, hence a  *)
(* rational number: it is kept as a reduced fraction [num, den], and every *)
(* distance taken from a centre c is kept multiplied by c.den, so that all *)
(* comparisons the code makes are made exactly, on integers.               *)
(*                                                                         *)
(* Merchant codes are pairs <<kind, n>>: kind is "str" for a code held as  *)
(* a string and "int" for a code held as a number; str() maps both to the  *)
(* string <<"str", n>>.                                                    *)
(***************************************************************************)
EXTENDS Integers, Sequences, FiniteSets, TLC

VARIABLES
    mode,                      \* which entry point this run exercises
    pc,                        \* position inside the entry point
    merchant_data,             \* the DataFrame passed in (a sequence of rows)
    radius_meters,             \* the radius argument, in length units
    max_merchants_per_circle,  \* the capacity argument
    remaining_data,            \* _create_circles_optimized: rows not yet assigned
    circles,                   \* _create_circles_optimized: the list being built
    circle_count,              \* _create_circles_optimized: circles made so far
    center,                    \* centre argument / centre selected for this pass
    sample_drawn,              \* _find_optimal_center_fast: row numbers drawn so far
    best_center,               \* _find_optimal_center_fast: best candidate so far
    max_coverage,              \* _find_optimal_center_fast: its coverage
    result,                    \* value returned by a directly applied function
    executive,                 \* the executive argument of the covering engine
    merchants_in_area,         \* create_visit_circles_with_splitting: rows in the area
    start_idx,                 \* create_visit_circles_with_splitting: start of the next chunk
    circle_num,                \* create_visit_circles_with_splitting: number of the next circle
    df,                        \* the application: the uploaded merchant table
    session_territories,       \* the application: st.session_state.territories
    employee_data,             \* assign_visit_days: the employee locations passed in
    top_count,                 \* assign_visit_days: the top_count argument
    assignment_mode,           \* assign_visit_days: "Per Executive" or "Global Ranking"
    selected_executives,       \* assign_visit_days: the executives passed in
    updated_territories,       \* assign_visit_days: the list returned
    start_lon,                 \* _nearest_neighbor_routing: the start location
    unvisited,                 \* _nearest_neighbor_routing: circles not yet placed
    route,                     \* _nearest_neighbor_routing: the route so far
    current_lon                \* _nearest_neighbor_routing: the current position

vars == <<mode, pc, merchant_data, radius_meters, max_merchants_per_circle,
          remaining_data, circles, circle_count, center, sample_drawn,
          best_center, max_coverage, result, executive, merchants_in_area,
          start_idx, circle_num, df, session_territories, employee_data,
          top_count, assignment_mode, selected_executives, updated_territories,
          start_lon, unvisited, route, current_lon>>

argVars == <<mode, merchant_data, radius_meters, max_merchants_per_circle, executive>>
sampleVars == <<sample_drawn, best_center, max_coverage>>
splitVars == <<merchants_in_area, start_idx, circle_num>>
sessionVars == <<df, session_territories>>
visitVars == <<employee_data, top_count, assignment_mode, selected_executives,
               updated_territories>>
routeVars == <<start_lon, unvisited, route, current_lon>>

---------------------------------------------------------------------------
(* Bounds of the model. *)

\* longest merchant table among the exhaustively enumerated inputs
MaxN == 4
\* largest longitude in those tables
MaxPos == 3
\* largest radius tried
MaxRadius == 2
\* largest capacity tried
MaxCap == 3
\* tables of at most this many rows have every outcome of the random sample
\* enumerated; a larger table is sampled in row order only
ExhaustiveSampleN == 12

(* Constants of the program. *)

\* "if len(merchant_data) <= 10" in _find_optimal_center_fast
SmallDatasetLimit == 10
\* "sample_size = min(15, len(merchant_data))"
SampleSizeCap == 15
\* "if circle_count > 100" in _create_circles_optimized
MaxCircleCount == 100

---------------------------------------------------------------------------
(* Arithmetic helpers. *)

Abs(x) == IF x < 0 THEN -x ELSE x

Min2(a, b) == IF a <= b THEN a ELSE b

Max2(a, b) == IF a >= b THEN a ELSE b

SetMin(S) == CHOOSE x \in S : \A y \in S : x <= y

SetMax(S) == CHOOSE x \in S : \A y \in S : x >= y

\* the greatest common divisor of a >= 0 and b > 0
GCD(a, b) == SetMax({g \in 1..b : a % g = 0 /\ b % g = 0})

\* the rational n/d (d > 0) as a reduced fraction
Rat(n, d) ==
    LET g == GCD(Abs(n), d)
    IN  [num |-> n \div g, den |-> d \div g]

\* the sum of the longitudes of rows lo..hi
RECURSIVE SumLon(_, _, _)
SumLon(data, lo, hi) ==
    IF lo > hi THEN 0
    ELSE IF lo = hi THEN data[lo].merchant_longitude
    ELSE LET mid == (lo + hi) \div 2
         IN  SumLon(data, lo, mid) + SumLon(data, mid + 1, hi)

\* Series.mean() of the longitude column
Mean(data) == Rat(SumLon(data, 1, Len(data)), Len(data))

\* the longitude of one row as a centre
PointCenter(row) == Rat(row.merchant_longitude, 1)

\* str(code)
Str(code) == <<"str", code[2]>>

\* str(n) of an integer n
StrOfInt(n) == <<"str", n>>

---------------------------------------------------------------------------
(* Distances.  A distance from centre c is represented multiplied by c.den. *)

\* haversine_distance(c, 0, lon, 0), times c.den
HaversineDistance(c, lon) == Abs(c.den * lon - c.num)

\* _calculate_distances_vectorized: one distance per row, times c.den
CalculateDistancesVectorized(data, c) ==
    [i \in 1..Len(data) |-> Abs(c.den * data[i].merchant_longitude - c.num)]

\* "distances <= radius_meters" as a set of row numbers
WithinRadius(distances, c, radius) ==
    {i \in DOMAIN distances : distances[i] <= radius * c.den}

\* fault: iloc[0] taken instead of the argmin row
ArgMinFirstRow(distances) == 1

\* np.argmin: the first row number holding the least value
ArgMin(distances) ==
    SetMin({i \in DOMAIN distances :
               \A j \in DOMAIN distances : distances[i] <= distances[j]})

\* the row numbers of S ordered by (key, row number)
RECURSIVE OrderBy(_, _)
OrderBy(S, key) ==
    IF S = {} THEN <<>>
    ELSE LET first == CHOOSE i \in S :
                         \A j \in S : \/ key[i] < key[j]
                                      \/ key[i] = key[j] /\ i <= j
         IN  <<first>> \o OrderBy(S \ {first}, key)

\* fault: the slice is one short, [:m - 1]
ArgSortSliceShort(S, key, m) ==
    LET k == Max2(Min2(m - 1, Cardinality(S)), 0)
    IN  {SubSeq(OrderBy(S, key), 1, k)}

\* np.argsort(values)[:m] over the rows of S.  The default sort kind
\* (quicksort) is not stable, so rows holding equal values may come out in
\* any order: every set of rows that some sorted order puts before the cut
\* is a possible outcome.  Equal-valued rows that are kept are listed by row
\* number.
ArgSortSlice(S, key, m) ==
    LET n == Cardinality(S)
        \* Python's [:m]
        k == IF m >= 0 THEN Min2(m, n) ELSE Max2(n + m, 0)
    IN  IF k = 0 THEN {<<>>}
        ELSE LET cut == OrderBy(S, key)[k]
                 before == {i \in S : key[i] < key[cut]}
                 ties == {i \in S : key[i] = key[cut]}
             IN  { OrderBy(before \cup B, key) :
                     B \in {X \in SUBSET ties :
                               Cardinality(X) = k - Cardinality(before)} }


---------------------------------------------------------------------------
(* The membership queries. *)

\* the merchant_code column of a table
CodeColumn(data) == [i \in DOMAIN data |-> data[i].merchant_code]

\* [str(code) for code in codes]
StrAll(codes) == [j \in DOMAIN codes |-> Str(codes[j])]

\* fault: "distance < radius_meters", the boundary left out
GetMerchantsInCircleStrict(data, c, radius) ==
    CodeColumn(SelectSeq(data,
        LAMBDA row : HaversineDistance(c, row.merchant_longitude) < radius * c.den))

\* get_merchants_in_circle: the scalar loop over the rows, in row order
GetMerchantsInCircle(data, c, radius) ==
    CodeColumn(SelectSeq(data,
        LAMBDA row : HaversineDistance(c, row.merchant_longitude) <= radius * c.den))

\* fault: the mask is not applied, every row is returned
RowsWithinAll(data, c, radius) == data

\* merchant_data[within_radius]: the rows within the radius, in row order
RowsWithin(data, c, radius) ==
    SelectSeq(data,
        LAMBDA row : Abs(c.den * row.merchant_longitude - c.num) <= radius * c.den)

\* fault: every row within the radius is returned, the capacity ignored
GetMerchantsInCircleUncapped(data, c, radius, max_merchants) ==
    IF Len(data) = 0 THEN {<<>>}
    ELSE IF Cardinality(WithinRadius(CalculateDistancesVectorized(data, c), c, radius)) = 0
    THEN {<<Str(data[ArgMin(CalculateDistancesVectorized(data, c))].merchant_code)>>}
    ELSE {StrAll(CodeColumn(RowsWithin(data, c, radius)))}

\* _get_merchants_in_circle_fast: the set of lists the call may return
GetMerchantsInCircleFast(data, c, radius, max_merchants) ==
    IF Len(data) = 0 THEN {<<>>}
    ELSE
      LET distances == CalculateDistancesVectorized(data, c)
          within_radius == WithinRadius(distances, c, radius)
      IN  IF Cardinality(within_radius) = 0
          THEN {<<Str(data[ArgMin(distances)].merchant_code)>>}
          ELSE IF Cardinality(within_radius) <= max_merchants
          THEN {StrAll(CodeColumn(RowsWithin(data, c, radius)))}
          ELSE {StrAll([j \in DOMAIN closest |-> data[closest[j]].merchant_code]) :
                   closest \in ArgSortSlice(within_radius, distances, max_merchants)}

---------------------------------------------------------------------------
(* The centre selection. *)

\* fault: the first row taken as the centre
FindOptimalCenterFirstRow(data) == PointCenter(data[1])

\* _find_optimal_center_simple
FindOptimalCenterSimple(data) == Mean(data)

\* fault: a row at the candidate centre itself is not counted
CoverageExcludingSelf(data, c, radius) ==
    Cardinality({i \in WithinRadius(CalculateDistancesVectorized(data, c), c, radius) :
                    CalculateDistancesVectorized(data, c)[i] > 0})

\* np.sum(distances <= radius_meters) for candidate centre c
Coverage(data, c, radius) ==
    Cardinality(WithinRadius(CalculateDistancesVectorized(data, c), c, radius))

\* fault: sample_size rows are drawn, not sample_size - 1
SampleCountFull(data) == Min2(SampleSizeCap, Len(data))

\* sample_size - 1, the number of rows np.random.choice draws
SampleCount(data) == Min2(SampleSizeCap, Len(data)) - 1

\* the first row number from i upwards that is not in drawn
RECURSIVE FirstUndrawn(_, _)
FirstUndrawn(drawn, i) == IF i \in drawn THEN FirstUndrawn(drawn, i + 1) ELSE i

\* the rows the next draw may yield (np.random.choice, replace=False)
DrawChoices(data, drawn) ==
    IF Len(data) <= ExhaustiveSampleN THEN (1..Len(data)) \ drawn
    ELSE {FirstUndrawn(drawn, 1)}

\* where control goes once the centre is known
AfterCenter == IF mode = "cover" THEN "assign" ELSE "fn_done"

\* _find_optimal_center_fast on at most SmallDatasetLimit rows: no sampling
FindOptimalCenterSmall ==
    /\ pc = "select"
    /\ Len(remaining_data) <= SmallDatasetLimit
    /\ center' = IF Len(remaining_data) = 0 THEN Rat(0, 1)
                 ELSE IF Len(remaining_data) = 1 THEN PointCenter(remaining_data[1])
                 ELSE FindOptimalCenterSimple(remaining_data)
    /\ sample_drawn' = {}
    /\ pc' = AfterCenter
    /\ UNCHANGED <<argVars, splitVars, sessionVars, visitVars, routeVars,
                   remaining_data, circles, circle_count,
                   best_center, max_coverage, result>>

\* _find_optimal_center_fast on more rows: the centroid is the first candidate
BeginSampling ==
    /\ pc = "select"
    /\ Len(remaining_data) > SmallDatasetLimit
    /\ best_center' = Mean(remaining_data)
    /\ max_coverage' = Coverage(remaining_data, Mean(remaining_data), radius_meters)
    /\ sample_drawn' = {}
    /\ pc' = "sampling"
    /\ UNCHANGED <<argVars, splitVars, sessionVars, visitVars, routeVars,
                   remaining_data, circles, circle_count, center, result>>

\* one drawn row is scored; after the last one the best candidate is returned
SampleStep ==
    /\ pc = "sampling"
    /\ \E i \in DrawChoices(remaining_data, sample_drawn) :
         LET cand == PointCenter(remaining_data[i])
             cov == Coverage(remaining_data, cand, radius_meters)
             better == cov > max_coverage
             best == IF better THEN cand ELSE best_center
         IN  /\ sample_drawn' = sample_drawn \cup {i}
             /\ max_coverage' = IF better THEN cov ELSE max_coverage
             /\ best_center' = best
             /\ IF Cardinality(sample_drawn) + 1 = SampleCount(remaining_data)
                THEN center' = best /\ pc' = AfterCenter
                ELSE UNCHANGED <<center, pc>>
    /\ UNCHANGED <<argVars, splitVars, sessionVars, visitVars, routeVars,
                   remaining_data, circles, circle_count, result>>

---------------------------------------------------------------------------
(* create_auto_recommended_circles / _create_circles_optimized. *)

\* remaining_data[~remaining_data['merchant_code'].astype(str).isin(members)]
RemoveAssigned(data, members) ==
    SelectSeq(data,
        LAMBDA row : ~(\E j \in DOMAIN members : members[j] = Str(row.merchant_code)))

\* fault: the radius is grown by one unit
MakeCircleGrownRadius(count, c, radius, members) ==
    [name |-> StrOfInt(count + 1),
     center |-> c,
     radius |-> radius + 1,
     merchants |-> members,
     merchant_count |-> Len(members),
     executive |-> executive]

\* fault: the name is str(circle_count), numbering from "0"
MakeCircleZeroBased(count, c, radius, members) ==
    [name |-> StrOfInt(count),
     center |-> c,
     radius |-> radius,
     merchants |-> members,
     merchant_count |-> Len(members),
     executive |-> executive]

\* the circle dictionary built in the main loop
MakeCircle(count, c, radius, members) ==
    [name |-> StrOfInt(count + 1),
     center |-> c,
     radius |-> radius,
     merchants |-> members,
     merchant_count |-> Len(members),
     executive |-> executive]

\* fault: the last row is dropped along with the members
NextRemainingLossy(data, members) ==
    RemoveAssigned(SubSeq(data, 1, Len(data) - 1), members)

\* fault: the first member is not removed
NextRemainingKeepsOne(data, members) == RemoveAssigned(data, Tail(members))

\* fault: the filtered table is not assigned back
NextRemainingUnchanged(data, members) == data

\* the rows left after one pass of the main loop
NextRemaining(data, members) == RemoveAssigned(data, members)

\* fault: the test is "circle_count > 101"
SafetyLimitLate(count) == count > MaxCircleCount + 1

\* the "if circle_count > 100" test that ends the main loop
SafetyLimitHit(count) == count > MaxCircleCount

\* the entry point: an empty table returns [] at once
Call ==
    /\ pc = "call"
    /\ mode = "cover"
    /\ remaining_data' = merchant_data
    /\ circles' = <<>>
    /\ circle_count' = 0
    /\ pc' = IF Len(merchant_data) = 0 THEN "done" ELSE "select"
    /\ UNCHANGED <<argVars, splitVars, sessionVars, visitVars, routeVars,
                   center, sampleVars, result>>

\* the rest of one pass of "while len(remaining_data) > 0", the centre known
AssignCircle ==
    /\ pc = "assign"
    /\ \E found \in GetMerchantsInCircleFast(remaining_data, center, radius_meters,
                                             max_merchants_per_circle) :
         LET tail == Len(remaining_data) <= max_merchants_per_circle
             first == remaining_data[1]
             \* "if not merchants_in_circle" of the else branch
             fb1 == ~tail /\ found = <<>>
             members1 == IF fb1 THEN <<Str(first.merchant_code)>> ELSE found
             center1 == IF fb1 THEN PointCenter(first) ELSE center
             \* "Ensure we have at least one merchant"
             fb2 == members1 = <<>> /\ Len(remaining_data) > 0
             members == IF fb2 THEN <<Str(first.merchant_code)>> ELSE members1
             c == IF fb2 THEN PointCenter(first) ELSE center1
         IN  IF members # <<>>
             THEN /\ circles' = Append(circles,
                                   MakeCircle(circle_count, c, radius_meters, members))
                  /\ remaining_data' = NextRemaining(remaining_data, members)
                  /\ circle_count' = circle_count + 1
                  /\ pc' = IF SafetyLimitHit(circle_count + 1)
                           THEN (IF Len(remaining_data') > 0 THEN "flush" ELSE "done")
                           ELSE (IF Len(remaining_data') > 0 THEN "select" ELSE "done")
             ELSE \* "Emergency exit if no merchants can be assigned"
                  /\ pc' = "done"
                  /\ UNCHANGED <<circles, remaining_data, circle_count>>
    /\ UNCHANGED <<argVars, splitVars, sessionVars, visitVars, routeVars,
                   center, sampleVars, result>>

\* one pass of the inner loop that follows "if circle_count > 100"
FlushStep ==
    /\ pc = "flush"
    /\ LET merchant == remaining_data[1]
       IN  circles' = Append(circles,
                         MakeCircle(circle_count, PointCenter(merchant), radius_meters,
                                    <<Str(merchant.merchant_code)>>))
    /\ remaining_data' = Tail(remaining_data)
    /\ circle_count' = circle_count + 1
    /\ pc' = IF Len(remaining_data') > 0 THEN "flush" ELSE "done"
    /\ UNCHANGED <<argVars, splitVars, sessionVars, visitVars, routeVars,
                   center, sampleVars, result>>

---------------------------------------------------------------------------
(* calculate_territory_overlap. *)

\* every code that some territory lists
AssignedMerchants(territories) ==
    UNION {{territories[t].merchants[j] : j \in DOMAIN territories[t].merchants} :
              t \in DOMAIN territories}

\* len(merchant_assignments[merchant]): one entry per listing of the merchant
\* over territories lo..hi
RECURSIVE AssignmentCount(_, _, _, _)
AssignmentCount(territories, merchant, lo, hi) ==
    IF lo > hi THEN 0
    ELSE IF lo = hi
    THEN Cardinality({j \in DOMAIN territories[lo].merchants :
                         territories[lo].merchants[j] = merchant})
    ELSE LET mid == (lo + hi) \div 2
         IN  AssignmentCount(territories, merchant, lo, mid)
             + AssignmentCount(territories, merchant, mid + 1, hi)

\* overlapping_merchants: the merchants listed more than once
OverlappingMerchants(territories) ==
    {m \in AssignedMerchants(territories) : AssignmentCount(territories, m, 1, Len(territories)) > 1}

\* overlap_count
OverlapCount(territories) == Cardinality(OverlappingMerchants(territories))

---------------------------------------------------------------------------
(* Inputs. *)

\* a merchant table with the given longitudes; row i has code "i"
MkData(lons) ==
    [i \in 1..Len(lons) |-> [merchant_code |-> <<"str", i>>,
                             merchant_longitude |-> lons[i]]]

\* every table of at most MaxN rows with longitudes in 0..MaxPos
SmallTables ==
    {MkData(lons) : lons \in UNION {[1..n -> 0..MaxPos] : n \in 0..MaxN}}

\* n rows, `step` apart
LineData(n, step) == MkData([i \in 1..n |-> (i - 1) * step])

\* n rows cycling over `w` neighbouring longitudes
CycleData(n, w) == MkData([i \in 1..n |-> (i - 1) % w])

Radii == 1..MaxRadius

Caps == -1..MaxCap

\* three merchants in units of 100 m: two 1.1 km apart, the third 157 km away,
\* radius 2000 m, capacity 5
NearPairCase == [data |-> MkData(<<0, 11, 1570>>), r |-> 20, k |-> 5]

\* isolated merchants, one circle each: the safety limit is passed while more
\* than ExhaustiveSampleN rows remain
SafetyLimitCase ==
    [data |-> LineData(MaxCircleCount + ExhaustiveSampleN + 2, 3), r |-> 1, k |-> 1]

\* two clusters far apart, SmallDatasetLimit + 1 rows: the centroid of the
\* first pool has no row within the radius, and every sample is enumerated
TwoClusterCase ==
    [data |-> MkData([i \in 1..(SmallDatasetLimit + 1) |-> ((i - 1) % 2) * 30]),
     r |-> 1, k |-> 3]

\* larger tables: they pass through the sampling branch and the safety limit
BigCases ==
    { [data |-> CycleData(SmallDatasetLimit + 1, 3), r |-> 2, k |-> 5],
      [data |-> CycleData(SmallDatasetLimit + 2, 2), r |-> 1, k |-> SmallDatasetLimit],
      [data |-> LineData(SmallDatasetLimit + 1, 3), r |-> 1, k |-> 2],
      [data |-> LineData(SmallDatasetLimit + 2, 1), r |-> 1, k |-> 3],
      SafetyLimitCase,
      NearPairCase,
      TwoClusterCase }

SmallCases == [data : SmallTables, r : Radii, k : Caps]

\* the variables of assign_visit_days and of the routing, not running
NoVisit ==
    /\ employee_data = <<>>
    /\ top_count = 0
    /\ assignment_mode = "Per Executive"
    /\ selected_executives = <<>>
    /\ updated_territories = <<>>
    /\ start_lon = [num |-> 0, den |-> 1]
    /\ unvisited = <<>>
    /\ route = <<>>
    /\ current_lon = [num |-> 0, den |-> 1]

\* the variables of the entry points that are not running
Elsewhere ==
    /\ merchants_in_area = <<>>
    /\ start_idx = 0
    /\ circle_num = 1
    /\ df = <<>>
    /\ session_territories = <<>>
    /\ NoVisit

Idle ==
    /\ remaining_data = <<>>
    /\ circles = <<>>
    /\ circle_count = 0
    /\ center = Rat(0, 1)
    /\ sample_drawn = {}
    /\ best_center = Rat(0, 1)
    /\ max_coverage = 0
    /\ result = <<>>

Init ==
    /\ mode = "cover"
    /\ pc = "call"
    /\ \E case \in SmallCases \cup BigCases :
         /\ merchant_data = case.data
         /\ radius_meters = case.r
         /\ max_merchants_per_circle = case.k
    /\ executive = "E1"
    /\ Idle
    /\ Elsewhere

Next ==
    \/ Call
    \/ FindOptimalCenterSmall
    \/ BeginSampling
    \/ SampleStep
    \/ AssignCircle
    \/ FlushStep

Spec == Init /\ [][Next]_vars

---------------------------------------------------------------------------
(* The membership queries and the centre selection applied on their own. *)

\* get_merchants_in_circle(merchant_data, center, radius_meters)
ApplyGetMerchantsInCircle ==
    /\ pc = "call"
    /\ mode = "in_circle"
    /\ result' = GetMerchantsInCircle(merchant_data, center, radius_meters)
    /\ pc' = "fn_done"
    /\ UNCHANGED <<argVars, splitVars, sessionVars, visitVars, routeVars,
                   remaining_data, circles, circle_count, center, sampleVars>>

\* _get_merchants_in_circle_fast(merchant_data, center, radius_meters, max_merchants)
ApplyGetMerchantsInCircleFast ==
    /\ pc = "call"
    /\ mode = "in_circle_fast"
    /\ result' \in GetMerchantsInCircleFast(merchant_data, center, radius_meters,
                                            max_merchants_per_circle)
    /\ pc' = "fn_done"
    /\ UNCHANGED <<argVars, splitVars, sessionVars, visitVars, routeVars,
                   remaining_data, circles, circle_count, center, sampleVars>>

\* _find_optimal_center_fast(merchant_data, radius_meters, max_merchants): entry
ApplyFindOptimalCenter ==
    /\ pc = "call"
    /\ mode = "center"
    /\ remaining_data' = merchant_data
    /\ pc' = "select"
    /\ UNCHANGED <<argVars, splitVars, sessionVars, visitVars, routeVars,
                   circles, circle_count, center, sampleVars, result>>

\* the centres tried as arguments: the half-units from 0 to MaxPos
QueryCenters == {Rat(n, 2) : n \in 0..(2 * MaxPos)}

\* tables on both sides of the SmallDatasetLimit
CenterTables ==
    SmallTables \cup
    { LineData(SmallDatasetLimit - 1, 1), LineData(SmallDatasetLimit, 2),
      CycleData(SmallDatasetLimit, 3), LineData(SmallDatasetLimit + 1, 2),
      CycleData(SmallDatasetLimit + 2, 4), LineData(SampleSizeCap + 1, 1) }

InitFn ==
    /\ pc = "call"
    /\ remaining_data = <<>>
    /\ circles = <<>>
    /\ circle_count = 0
    /\ sample_drawn = {}
    /\ best_center = Rat(0, 1)
    /\ max_coverage = 0
    /\ result = <<>>
    /\ executive = "E1"
    /\ Elsewhere
    /\ radius_meters \in Radii
    /\ \/ /\ mode = "in_circle"
          /\ merchant_data \in SmallTables
          /\ center \in QueryCenters
          /\ max_merchants_per_circle = 0
       \/ /\ mode = "in_circle_fast"
          /\ merchant_data \in SmallTables
          /\ center \in QueryCenters
          /\ max_merchants_per_circle \in Caps
       \/ /\ mode = "center"
          /\ merchant_data \in CenterTables
          /\ center = Rat(0, 1)
          /\ max_merchants_per_circle \in {1, MaxCap}

NextFn ==
    \/ ApplyGetMerchantsInCircle
    \/ ApplyGetMerchantsInCircleFast
    \/ ApplyFindOptimalCenter
    \/ FindOptimalCenterSmall
    \/ BeginSampling
    \/ SampleStep

SpecFn == InitFn /\ [][NextFn]_vars

---------------------------------------------------------------------------
(* create_visit_circles_with_splitting.  A radius of this entry point is a *)
(* fraction [num, den], as a centre is.                                    *)

\* Python's seq[start:end]
PySlice(seq, start, end) ==
    LET n == Len(seq)
        norm(i) == IF i < 0 THEN Max2(i + n, 0) ELSE Min2(i, n)
    IN  IF norm(start) < norm(end) THEN SubSeq(seq, norm(start) + 1, norm(end)) ELSE <<>>

\* the row numbers of the rows with "distance <= radius_meters", in row order
MerchantsInArea(data, c, radius) ==
    OrderBy(WithinRadius(CalculateDistancesVectorized(data, c), c, radius),
            [i \in DOMAIN data |-> 0])

\* fault: the sort is left out, the rows stay in row order
SortByDistanceOmitted(data, c, radius) ==
    OrderBy(WithinRadius(CalculateDistancesVectorized(data, c), c, radius),
            [i \in DOMAIN data |-> 0])

\* merchants_in_area.sort(key=lambda x: x['distance']): list.sort is stable,
\* rows at equal distance keep their row order
SortByDistance(data, c, radius) ==
    OrderBy(WithinRadius(CalculateDistancesVectorized(data, c), c, radius),
            CalculateDistancesVectorized(data, c))

\* the rows of a chunk of row numbers
ChunkRows(data, chunk) == [j \in DOMAIN chunk |-> data[chunk[j]]]

\* max(haversine_distance(avg, m) for m in circle_merchants), times avg.den
MaxDistance(rows, avg) ==
    SetMax({HaversineDistance(avg, rows[j].merchant_longitude) : j \in DOMAIN rows})

\* fault: the buffer is taken off, "max_distance * 0.8"
SubRadiusShrunk(max_distance, den) == Rat(4 * max_distance, 5 * den)

\* sub_radius = max_distance * 1.2, for max_distance held times den
SubRadius(max_distance, den) == Rat(6 * max_distance, 5 * den)

\* circle_name: visit_day for the first circle, visit_day_Circle_<n> after it
CircleName(num) == IF num > 1 THEN <<"visit_day_Circle", num>> ELSE <<"visit_day", 1>>

\* the single circle of the "within limit" branch
WholeCircle(data, area, c, radius) ==
    [name |-> CircleName(1),
     center |-> c,
     radius |-> Rat(radius, 1),
     merchants |-> CodeColumn(ChunkRows(data, area)),
     merchant_count |-> Len(area)]

\* the circle built for one chunk
SubCircle(data, chunk, num) ==
    LET rows == ChunkRows(data, chunk)
        avg == Mean(rows)
    IN  [name |-> CircleName(num),
         center |-> avg,
         radius |-> SubRadius(MaxDistance(rows, avg), avg.den),
         merchants |-> CodeColumn(rows),
         merchant_count |-> Len(chunk)]

\* start_idx = end_idx
NextStart(end_idx) == end_idx

\* entry: the rows in the area are collected; within the limit they make one
\* circle, otherwise they are sorted and the chunk loop is entered
CreateVisitCirclesWithSplitting ==
    /\ pc = "call"
    /\ mode = "split"
    /\ LET area == MerchantsInArea(merchant_data, center, radius_meters)
       IN  IF Len(area) <= max_merchants_per_circle
           THEN /\ merchants_in_area' = area
                /\ circles' = <<WholeCircle(merchant_data, area, center, radius_meters)>>
                /\ pc' = "fn_done"
                /\ UNCHANGED <<start_idx, circle_num>>
           ELSE /\ merchants_in_area' = SortByDistance(merchant_data, center, radius_meters)
                /\ circles' = <<>>
                /\ circle_num' = 1
                /\ start_idx' = 0
                /\ pc' = IF 0 < Len(area) THEN "split_loop" ELSE "fn_done"
    /\ UNCHANGED <<argVars, sessionVars, visitVars, routeVars, remaining_data, circle_count, center,
                   sampleVars, result>>

\* one pass of "while start_idx < len(merchants_in_area)"; a pass whose chunk
\* is empty changes nothing
SplitStep ==
    /\ pc = "split_loop"
    /\ LET end_idx == Min2(start_idx + max_merchants_per_circle, Len(merchants_in_area))
           circle_merchants == PySlice(merchants_in_area, start_idx, end_idx)
       IN  IF circle_merchants # <<>>
           THEN /\ circles' = Append(circles,
                                 SubCircle(merchant_data, circle_merchants, circle_num))
                /\ circle_num' = circle_num + 1
                /\ start_idx' = NextStart(end_idx)
                /\ pc' = IF start_idx' < Len(merchants_in_area)
                         THEN "split_loop" ELSE "fn_done"
           ELSE UNCHANGED <<circles, circle_num, start_idx, pc>>
    /\ UNCHANGED <<argVars, sessionVars, visitVars, routeVars, merchants_in_area, remaining_data, circle_count,
                   center, sampleVars, result>>

InitSplit ==
    /\ mode = "split"
    /\ pc = "call"
    /\ merchant_data \in SmallTables
    /\ center \in QueryCenters
    /\ radius_meters \in Radii
    /\ max_merchants_per_circle \in Caps
    /\ executive = "E1"
    /\ remaining_data = <<>>
    /\ circles = <<>>
    /\ circle_count = 0
    /\ sample_drawn = {}
    /\ best_center = Rat(0, 1)
    /\ max_coverage = 0
    /\ result = <<>>
    /\ Elsewhere

NextSplit ==
    \/ CreateVisitCirclesWithSplitting
    \/ SplitStep

SpecSplit == InitSplit /\ [][NextSplit]_vars

---------------------------------------------------------------------------
(* The auto-recommendation flow and the circle deletion of simple_app.py.  *)
(* The uploaded tables of the model have at most SmallDatasetLimit rows,   *)
(* so the covering engine never samples here.                              *)

\* a merchant table with longitudes and emp_id values; row i has code "i"
MkOwnedData(lons, owners) ==
    [i \in 1..Len(lons) |-> [merchant_code |-> <<"str", i>>,
                             merchant_longitude |-> lons[i],
                             emp_id |-> owners[i]]]

\* df['emp_id'].unique()
Executives == {"E1", "E2"}

\* the uploaded tables
AppTables ==
    { MkOwnedData(<<0, MaxPos, 0>>, <<"E1", "E1", "E2">>),
      MkOwnedData(<<0, 1, MaxPos, 1>>, <<"E1", "E1", "E1", "E2">>),
      MkOwnedData(<<0, MaxPos, MaxPos, 0>>, <<"E1", "E2", "E1", "E2">>) }

\* fault: the emp_id filter is left out
OwnedByAnyone(data, exec_name) == data

\* df[df['emp_id'] == exec_name]
OwnedBy(data, exec_name) == SelectSeq(data, LAMBDA row : row.emp_id = exec_name)

\* assigned_merchants: the members of the executive's circles
AssignedTo(terr, exec_name) ==
    UNION {{terr[t].merchants[j] : j \in DOMAIN terr[t].merchants} :
              t \in {u \in DOMAIN terr : terr[u].executive = exec_name}}

\* auto_filtered_data[~auto_filtered_data['merchant_code'].isin(assigned_merchants)]
Unassigned(data, assigned) ==
    SelectSeq(data, LAMBDA row : row.merchant_code \notin assigned)

\* the list without its first element equal to circle:
\* del territories[territories.index(circle)]
DeleteFirst(terr, circle) ==
    LET at == SetMin({i \in DOMAIN terr : terr[i] = circle})
    IN  SubSeq(terr, 1, at - 1) \o SubSeq(terr, at + 1, Len(terr))

\* "Generate Auto Recommendations" for one executive, up to the call of
\* create_auto_recommended_circles on the unassigned rows
AutoRecommend ==
    /\ pc = "idle"
    /\ \E exec_name \in Executives, r \in Radii, k \in 1..MaxCap :
         LET auto_filtered_data == OwnedBy(df, exec_name)
             unassigned_data ==
                 Unassigned(auto_filtered_data, AssignedTo(session_territories, exec_name))
         IN  /\ Len(auto_filtered_data) > 0
             /\ Len(unassigned_data) > 0
             /\ merchant_data' = unassigned_data
             /\ radius_meters' = r
             /\ max_merchants_per_circle' = k
             /\ executive' = exec_name
    /\ pc' = "call"
    /\ UNCHANGED <<mode, splitVars, sessionVars, visitVars, routeVars,
                   remaining_data, circles, circle_count,
                   center, sampleVars, result>>

\* st.session_state.territories.extend(auto_circles); the locals of the call
\* are gone
ExtendTerritories ==
    /\ pc = "done"
    /\ session_territories' = session_territories \o circles
    /\ pc' = "idle"
    /\ merchant_data' = <<>>
    /\ remaining_data' = <<>>
    /\ circles' = <<>>
    /\ circle_count' = 0
    /\ center' = Rat(0, 1)
    /\ UNCHANGED <<mode, radius_meters, max_merchants_per_circle, executive, splitVars,
                   visitVars, routeVars,
                   df, sampleVars, result>>

\* the "Delete" button of one circle
DeleteCircle ==
    /\ pc = "idle"
    /\ \E i \in DOMAIN session_territories :
         session_territories' = DeleteFirst(session_territories, session_territories[i])
    /\ UNCHANGED <<argVars, splitVars, visitVars, routeVars, df, pc, remaining_data,
                   circles, circle_count,
                   center, sampleVars, result>>

InitApp ==
    /\ mode = "cover"
    /\ pc = "idle"
    /\ df \in AppTables
    /\ session_territories = <<>>
    /\ merchant_data = <<>>
    /\ radius_meters = 1
    /\ max_merchants_per_circle = 1
    /\ executive = "E1"
    /\ merchants_in_area = <<>>
    /\ start_idx = 0
    /\ circle_num = 1
    /\ NoVisit
    /\ Idle

NextApp ==
    \/ AutoRecommend
    \/ Call
    \/ FindOptimalCenterSmall
    \/ AssignCircle
    \/ ExtendTerritories
    \/ DeleteCircle

SpecApp == InitApp /\ [][NextApp]_vars

---------------------------------------------------------------------------
(* _nearest_neighbor_routing.  Positions and distances are fractions.      *)

\* haversine_distance between two positions on the equator
RatDistance(a, b) == Rat(Abs(a.num * b.den - b.num * a.den), a.den * b.den)

\* x < y for fractions
RatLess(x, y) == x.num * y.den < y.num * x.den

\* the positions of unv at the least distance from cur
NearestSet(unv, cur) ==
    {i \in DOMAIN unv :
        \A j \in DOMAIN unv : ~RatLess(RatDistance(cur, unv[j].center),
                                        RatDistance(cur, unv[i].center))}

\* fault: "distance <= min_distance", the last of the nearest is kept
NearestIndexLast(unv, cur) == SetMax(NearestSet(unv, cur))

\* the inner for loop with "distance < min_distance": the first of the nearest
NearestIndex(unv, cur) == SetMin(NearestSet(unv, cur))

\* fault: unvisited.pop(0)
PopFirst(seq, i) == Tail(seq)

\* unvisited.pop(nearest_index)
Pop(seq, i) == SubSeq(seq, 1, i - 1) \o SubSeq(seq, i + 1, Len(seq))

\* the while loop as a function of the circles left and the current position
RECURSIVE RouteFrom(_, _)
RouteFrom(unv, cur) ==
    IF unv = <<>> THEN <<>>
    ELSE LET i == NearestIndex(unv, cur)
         IN  <<unv[i]>> \o RouteFrom(Pop(unv, i), unv[i].center)

\* _nearest_neighbor_routing as a function of its arguments
NearestNeighborRouting(cs, start) == IF Len(cs) <= 1 THEN cs ELSE RouteFrom(cs, start)

\* entry of _nearest_neighbor_routing
BeginRouting ==
    /\ pc = "call"
    /\ mode = "route"
    /\ IF Len(circles) <= 1
       THEN /\ result' = circles
            /\ pc' = "fn_done"
            /\ UNCHANGED <<unvisited, route, current_lon>>
       ELSE /\ unvisited' = circles
            /\ route' = <<>>
            /\ current_lon' = start_lon
            /\ pc' = "route_loop"
            /\ UNCHANGED result
    /\ UNCHANGED <<argVars, splitVars, sessionVars, visitVars, start_lon, remaining_data,
                   circles, circle_count, center, sampleVars>>

\* one pass of "while unvisited"
RouteStep ==
    /\ pc = "route_loop"
    /\ unvisited # <<>>
    /\ LET nearest_index == NearestIndex(unvisited, current_lon)
           nearest_circle == unvisited[nearest_index]
       IN  /\ route' = Append(route, nearest_circle)
           /\ current_lon' = nearest_circle.center
           /\ unvisited' = Pop(unvisited, nearest_index)
    /\ IF unvisited' = <<>>
       THEN pc' = "fn_done" /\ result' = route'
       ELSE UNCHANGED <<pc, result>>
    /\ UNCHANGED <<argVars, splitVars, sessionVars, visitVars, start_lon, remaining_data,
                   circles, circle_count, center, sampleVars>>

\* a circle record as the routing and the scheduling read it
MkTerritory(n, lon, count, exec_id) ==
    [name |-> StrOfInt(n), center |-> Rat(lon, 1), merchant_count |-> count,
     executive |-> exec_id]

\* the lists of up to MaxN circles with centres in 0..MaxPos
RouteLists ==
    {[i \in 1..Len(lons) |-> MkTerritory(i, lons[i], 1, "E1")] :
        lons \in UNION {[1..n -> 0..MaxPos] : n \in 0..MaxN}}

InitRoute ==
    /\ mode = "route"
    /\ pc = "call"
    /\ circles \in RouteLists
    /\ start_lon \in QueryCenters
    /\ merchant_data = <<>>
    /\ radius_meters = 1
    /\ max_merchants_per_circle = 1
    /\ executive = "E1"
    /\ remaining_data = <<>>
    /\ circle_count = 0
    /\ center = Rat(0, 1)
    /\ sample_drawn = {}
    /\ best_center = Rat(0, 1)
    /\ max_coverage = 0
    /\ result = <<>>
    /\ merchants_in_area = <<>>
    /\ start_idx = 0
    /\ circle_num = 1
    /\ df = <<>>
    /\ session_territories = <<>>
    /\ employee_data = <<>>
    /\ top_count = 0
    /\ assignment_mode = "Per Executive"
    /\ selected_executives = <<>>
    /\ updated_territories = <<>>
    /\ unvisited = <<>>
    /\ route = <<>>
    /\ current_lon = Rat(0, 1)

NextRoute ==
    \/ BeginRouting
    \/ RouteStep

SpecRoute == InitRoute /\ [][NextRoute]_vars

---------------------------------------------------------------------------
(* assign_visit_days.  A circle is a dict: a function on its field names,  *)
(* with "visit_day" an optional field.  The lists the function builds hold *)
(* references to the dicts of updated_territories: here their positions.   *)

\* 'visit_day' in t
HasVisitDay(t) == "visit_day" \in DOMAIN t

\* fault: the copy keeps its visit_day
KeepVisitDay(t) == t

\* territory.copy() followed by "del territory_copy['visit_day']"
ClearVisitDay(t) == [f \in DOMAIN t \ {"visit_day"} |-> t[f]]

\* circle['visit_day'] = d
SetVisitDay(t, d) ==
    [f \in DOMAIN t \cup {"visit_day"} |-> IF f = "visit_day" THEN d ELSE t[f]]

\* fault: the loop works on the dicts passed in
InputAliased(ts, updated) == updated

\* the list passed in after the call: only copies are written to
InputAfterCall(ts, updated) == ts

\* [t for t in updated_territories if t.get('executive') == exec_id]
ExecCircles(ts, exec_id) ==
    SelectSeq([i \in 1..Len(ts) |-> i], LAMBDA i : ts[i].executive = exec_id)

\* fault: the list is not sorted
SortByCountOmitted(ts, refs) == refs

\* list.sort(key=merchant_count, reverse=True): stable, largest first
RECURSIVE SortByCount(_, _)
SortByCount(ts, refs) ==
    IF refs = <<>> THEN <<>>
    ELSE LET most == SetMax({ts[refs[p]].merchant_count : p \in DOMAIN refs})
             p == SetMin({q \in DOMAIN refs : ts[refs[q]].merchant_count = most})
         IN  <<refs[p]>> \o SortByCount(ts, Pop(refs, p))

\* fault: every circle of the ranking is taken
TopCirclesAll(refs, n) == refs

\* ranked[:min(top_count, len(ranked))]
TopCircles(refs, n) == PySlice(refs, 0, Min2(n, Len(refs)))

\* the sum of fractions
RECURSIVE RatSum(_)
RatSum(xs) ==
    IF xs = <<>> THEN Rat(0, 1)
    ELSE LET r == RatSum(Tail(xs))
             x == Head(xs)
         IN  Rat(x.num * r.den + r.num * x.den, x.den * r.den)

\* np.mean of the centres of the circles refs
MeanCenter(ts, refs) ==
    LET total == RatSum([p \in DOMAIN refs |-> ts[refs[p]].center])
    IN  Rat(total.num, total.den * Len(refs))

\* the start of the route: the first employee row of exec_id, else the mean
\* centre (employee_data None and an employee_data without a row of exec_id
\* take the same branch; both are the empty sequence here)
StartLocation(ts, refs, exec_id, emp) ==
    LET emp_location == SelectSeq(emp, LAMBDA e : e.emp_id = exec_id)
    IN  IF Len(emp_location) > 0
        THEN Rat(emp_location[1].emp_longitude, 1)
        ELSE MeanCenter(ts, refs)

\* _optimize_visit_routing
OptimizeVisitRouting(ts, refs, exec_id, emp) ==
    IF Len(refs) <= 1 THEN refs
    ELSE LET handles == [p \in DOMAIN refs |-> [ref |-> refs[p], center |-> ts[refs[p]].center]]
             ordered == NearestNeighborRouting(handles, StartLocation(ts, refs, exec_id, emp))
         IN  [p \in DOMAIN ordered |-> ordered[p].ref]

\* "circle['visit_day'] = ..." for ordered_circles, numbered from first_day on
\* (a circle listed twice keeps the later number)
NumberCircles(ts, ordered_circles, first_day) ==
    [i \in DOMAIN ts |->
        LET places == {p \in DOMAIN ordered_circles : ordered_circles[p] = i}
        IN  IF places = {} THEN ts[i]
            ELSE SetVisitDay(ts[i], first_day + SetMax(places) - 1)]

\* the "Per Executive" branch: the loop over selected_executives
RECURSIVE PerExecutive(_, _, _, _)
PerExecutive(ts, execs, emp, n) ==
    IF execs = <<>> THEN ts
    ELSE LET exec_id == Head(execs)
             exec_circles == SortByCount(ts, ExecCircles(ts, exec_id))
             top_exec_circles == TopCircles(exec_circles, n)
             ordered_circles == OptimizeVisitRouting(ts, top_exec_circles, exec_id, emp)
         IN  PerExecutive(NumberCircles(ts, ordered_circles, 1), Tail(execs), emp, n)

\* all_exec_circles: the circles of the selected executives, executive by executive
RECURSIVE AllExecCircles(_, _)
AllExecCircles(ts, execs) ==
    IF execs = <<>> THEN <<>>
    ELSE ExecCircles(ts, Head(execs)) \o AllExecCircles(ts, Tail(execs))

\* fault: the groups are taken last key first
RECURSIVE GroupKeysLastFirst(_, _)
GroupKeysLastFirst(ts, refs) ==
    IF refs = <<>> THEN <<>>
    ELSE LET exec_id == ts[Head(refs)].executive
         IN  GroupKeysLastFirst(ts, SelectSeq(Tail(refs), LAMBDA i : ts[i].executive # exec_id))
             \o <<exec_id>>

\* the keys of exec_groups in insertion order
RECURSIVE GroupKeys(_, _)
GroupKeys(ts, refs) ==
    IF refs = <<>> THEN <<>>
    ELSE LET exec_id == ts[Head(refs)].executive
         IN  <<exec_id>> \o
             GroupKeys(ts, SelectSeq(Tail(refs), LAMBDA i : ts[i].executive # exec_id))

\* the loop over exec_groups.items() with its day_counter
RECURSIVE NumberGroups(_, _, _, _, _)
NumberGroups(ts, keys, top_global_circles, emp, day_counter) ==
    IF keys = <<>> THEN ts
    ELSE LET exec_id == Head(keys)
             group == SelectSeq(top_global_circles, LAMBDA i : ts[i].executive = exec_id)
             ordered_circles == OptimizeVisitRouting(ts, group, exec_id, emp)
         IN  NumberGroups(NumberCircles(ts, ordered_circles, day_counter), Tail(keys),
                          top_global_circles, emp, day_counter + Len(ordered_circles))

\* the "Global Ranking" branch
GlobalRanking(ts, execs, emp, n) ==
    LET all_exec_circles == SortByCount(ts, AllExecCircles(ts, execs))
        top_global_circles == TopCircles(all_exec_circles, n)
    IN  NumberGroups(ts, GroupKeys(ts, top_global_circles), top_global_circles, emp, 1)

\* assign_visit_days as a function of its arguments
AssignVisitDaysOf(ts, emp, n, ranking, execs) ==
    LET cleared == [i \in DOMAIN ts |-> ClearVisitDay(ts[i])]
    IN  IF ranking = "Per Executive"
        THEN PerExecutive(cleared, execs, emp, n)
        ELSE GlobalRanking(cleared, execs, emp, n)

\* one call of assign_visit_days on the list session_territories
AssignVisitDays ==
    /\ pc = "call"
    /\ mode = "visit"
    /\ updated_territories' = AssignVisitDaysOf(session_territories, employee_data, top_count,
                                                assignment_mode, selected_executives)
    /\ session_territories' = InputAfterCall(session_territories, updated_territories')
    /\ pc' = "fn_done"
    /\ UNCHANGED <<argVars, splitVars, routeVars, df, employee_data, top_count,
                   assignment_mode, selected_executives, remaining_data, circles,
                   circle_count, center, sampleVars, result>>

MaxCircles == 3
MaxCenter == 1
MaxCount == 2
MaxTop == 3

\* the circle lists: up to MaxCircles circles of the two executives
VisitLists ==
    UNION {{[i \in 1..n |-> MkTerritory(i, lons[i], counts[i], owners[i])] :
               lons \in [1..n -> 0..MaxCenter], counts \in [1..n -> 1..MaxCount],
               owners \in [1..n -> Executives]} : n \in 0..MaxCircles}

\* top_count
TopCounts == -1..MaxTop

AssignmentModes == {"Per Executive", "Global Ranking"}

\* selected_executives
SelectedLists ==
    {<<>>, <<"E1">>, <<"E2">>, <<"E1", "E2">>, <<"E2", "E1">>, <<"E1", "E1">>}

\* employee_data: none, or the location of E1 and of E2
EmployeeTables ==
    {<<>>, <<[emp_id |-> "E1", emp_longitude |-> MaxCenter],
             [emp_id |-> "E2", emp_longitude |-> 0]>>}

\* the list passed in: fresh circles, or the result of an earlier call
EarlierCalls ==
    {<<"none", 0, <<>>>>, <<"Per Executive", 1, <<"E1", "E2">>>>,
     <<"Global Ranking", MaxCircles, <<"E2", "E1">>>>}

EarlierResult(ts, call) ==
    IF call[1] = "none" THEN ts ELSE AssignVisitDaysOf(ts, <<>>, call[2], call[1], call[3])

InitVisit ==
    /\ mode = "visit"
    /\ pc = "call"
    /\ session_territories \in {EarlierResult(ts, call) : ts \in VisitLists, call \in EarlierCalls}
    /\ employee_data \in EmployeeTables
    /\ top_count \in TopCounts
    /\ assignment_mode \in AssignmentModes
    /\ selected_executives \in SelectedLists
    /\ updated_territories = <<>>
    /\ merchant_data = <<>>
    /\ radius_meters = 1
    /\ max_merchants_per_circle = 1
    /\ executive = "E1"
    /\ remaining_data = <<>>
    /\ circles = <<>>
    /\ circle_count = 0
    /\ center = Rat(0, 1)
    /\ sample_drawn = {}
    /\ best_center = Rat(0, 1)
    /\ max_coverage = 0
    /\ result = <<>>
    /\ merchants_in_area = <<>>
    /\ start_idx = 0
    /\ circle_num = 1
    /\ df = <<>>
    /\ start_lon = Rat(0, 1)
    /\ unvisited = <<>>
    /\ route = <<>>
    /\ current_lon = Rat(0, 1)

NextVisit == AssignVisitDays

SpecVisit == InitVisit /\ [][NextVisit]_vars

---------------------------------------------------------------------------
(* Vocabulary of the properties. *)

\* the ids of the rows of a table
IdsOf(data) == {data[i].merchant_code : i \in DOMAIN data}

\* the ids listed by the circles of a list
MemberIds(cs) == UNION {{cs[t].merchants[j] : j \in DOMAIN cs[t].merchants} : t \in DOMAIN cs}

\* the row of merchant_data that carries an id (ids are unique)
RowOf(id) == CHOOSE i \in DOMAIN merchant_data : merchant_data[i].merchant_code = id

\* the merchant at longitude lon is within `radius` of centre c
Inside(c, lon, radius) == Abs(c.den * lon - c.num) <= radius * c.den

\* cover has returned
CoverDone == mode = "cover" /\ pc = "done"

n_input == Len(merchant_data)

CeilDiv(a, b) == (a + b - 1) \div b

---------------------------------------------------------------------------
(* C1-C6: the covering engine. *)

\* C1: when cover returns (capacity >= 1), the ids listed by the returned
\* circles are exactly the ids of the input table: none missing, none foreign.
C1_CoverageComplete ==
    (CoverDone /\ max_merchants_per_circle >= 1)
        => MemberIds(circles) = IdsOf(merchant_data)

\* a run that went through several circles, one of them with several members
C1_Witness ==
    /\ CoverDone
    /\ max_merchants_per_circle >= 1
    /\ n_input >= 3
    /\ Len(circles) >= 2
    /\ \E t \in DOMAIN circles : circles[t].merchant_count >= 2
    /\ MemberIds(circles) = IdsOf(merchant_data)

\* C2: at every point of the peeling loop no id is listed twice, neither by
\* two circles nor twice by one, so calculate_territory_overlap reports
\* overlap_count = 0 on the circles built so far and on the result.
C2_Disjoint ==
    mode = "cover" =>
        /\ OverlapCount(circles) = 0
        /\ \A t \in DOMAIN circles :
             /\ \A a, b \in DOMAIN circles[t].merchants :
                  a # b => circles[t].merchants[a] # circles[t].merchants[b]
             /\ \A u \in DOMAIN circles : \A a \in DOMAIN circles[t].merchants :
                  \A b \in DOMAIN circles[u].merchants :
                     t # u => circles[t].merchants[a] # circles[u].merchants[b]
        /\ MemberIds(circles) \cap IdsOf(remaining_data) = {}

\* the loop is under way: circles exist, one with two members, rows remain
C2_Witness ==
    /\ mode = "cover"
    /\ pc = "select"
    /\ Len(circles) >= 2
    /\ \E t \in DOMAIN circles : circles[t].merchant_count >= 2
    /\ OverlapCount(circles) = 0

\* C3: with capacity k >= 1 every circle lists at most k members, and its
\* merchant_count is the length of its list.
C3_CapacityBound ==
    (mode = "cover" /\ max_merchants_per_circle >= 1) =>
        \A t \in DOMAIN circles :
            /\ circles[t].merchant_count <= max_merchants_per_circle
            /\ circles[t].merchant_count = Len(circles[t].merchants)

\* the cap has cut: the last circle is full and a row left behind lies
\* within its radius
C3_Witness ==
    /\ mode = "cover"
    /\ max_merchants_per_circle >= 2
    /\ circles # <<>>
    /\ LET last == circles[Len(circles)]
       IN  /\ last.merchant_count = max_merchants_per_circle
           /\ \E i \in DOMAIN remaining_data :
                Inside(last.center, remaining_data[i].merchant_longitude, last.radius)

\* a pass of the main loop or of the flush loop leaves fewer rows behind
PassShrinks ==
    (pc \in {"assign", "flush"}) => (Len(remaining_data') < Len(remaining_data))

\* steps still to come inside the current pass, at most SampleSizeCap + 1
PhaseRank ==
    CASE pc = "select" -> SampleSizeCap + 1
      [] pc = "sampling" -> 1 + SampleCount(remaining_data) - Cardinality(sample_drawn)
      [] OTHER -> 0

\* a bound on the steps cover can still take
Variant ==
    IF pc = "call" THEN (Len(merchant_data) + 1) * (SampleSizeCap + 2)
    ELSE IF pc = "done" THEN 0
    ELSE Len(remaining_data) * (SampleSizeCap + 2) + PhaseRank

\* some step of cover can be taken in the current state
CanStep ==
    \/ pc = "call"
    \/ pc = "select"
    \/ pc = "sampling" /\ DrawChoices(remaining_data, sample_drawn) # {}
    \/ pc = "assign" /\ GetMerchantsInCircleFast(remaining_data, center, radius_meters,
                                                 max_merchants_per_circle) # {}
    \/ pc = "flush" /\ remaining_data # <<>>

\* C4: cover terminates for every capacity value: every pass of the main loop
\* and of the flush loop leaves strictly fewer rows in remaining_data, every
\* step lowers a bound on the steps still to come, and the run can only stop
\* by returning.
C4_Terminates ==
    /\ [](pc = "done" \/ CanStep)
    /\ [][PassShrinks /\ Variant' < Variant /\ Variant' >= 0]_vars

\* a run with a capacity below 1 that has returned several circles
C4_Witness ==
    /\ CoverDone
    /\ max_merchants_per_circle <= 0
    /\ Len(circles) >= 3

\* C5: on the near-pair table cover returns exactly two circles, one listing
\* the two near merchants and one listing the far merchant alone.
C5_NearPairTwoCircles ==
    (CoverDone /\ merchant_data = NearPairCase.data /\ radius_meters = NearPairCase.r
               /\ max_merchants_per_circle = NearPairCase.k)
        => /\ Len(circles) = 2
           /\ \E t, u \in DOMAIN circles :
                /\ {circles[t].merchants[j] : j \in DOMAIN circles[t].merchants}
                      = {<<"str", 1>>, <<"str", 2>>}
                /\ circles[u].merchants = <<(<<"str", 3>>)>>

\* all rows of the table lie within the radius of one another
Dense == \A i, j \in DOMAIN merchant_data :
            Abs(merchant_data[i].merchant_longitude - merchant_data[j].merchant_longitude)
                <= radius_meters

\* C6: on a table whose rows all lie within the radius of one another, with
\* capacity k >= 1 and ceil(n/k) <= 100, cover returns ceil(n/k) circles,
\* each with k members except the last, which has the rest.
C6_DensePacking ==
    (/\ CoverDone
     /\ max_merchants_per_circle >= 1
     /\ n_input >= 1
     /\ Dense
     /\ CeilDiv(n_input, max_merchants_per_circle) <= MaxCircleCount)
        => LET k == max_merchants_per_circle
               c == CeilDiv(n_input, k)
           IN  /\ Len(circles) = c
               /\ \A t \in 1..(c - 1) : circles[t].merchant_count = k
               /\ circles[c].merchant_count = n_input - k * (c - 1)

\* a dense table large enough to be sampled, packed into three or more circles
C6_Witness ==
    /\ CoverDone
    /\ Dense
    /\ n_input > SmallDatasetLimit
    /\ max_merchants_per_circle >= 2
    /\ Len(circles) >= 3
    /\ circles[1].merchant_count = max_merchants_per_circle

---------------------------------------------------------------------------
(* C7-C10: the membership queries and the centre selection. *)

\* the distance of row i of merchant_data from the centre argument, times center.den
RowDist(i) == Abs(center.den * merchant_data[i].merchant_longitude - center.num)

\* the rows of merchant_data within the radius of the centre argument
RowsInside == {i \in DOMAIN merchant_data : RowDist(i) <= radius_meters * center.den}

\* the rows whose ids a returned list names
RowsNamed(list) ==
    {i \in DOMAIN merchant_data : \E j \in DOMAIN list : list[j] = merchant_data[i].merchant_code}

\* a list names rows of merchant_data only, and no row twice
NamesRowsOnce(list) ==
    /\ \A j \in DOMAIN list : list[j] \in IdsOf(merchant_data)
    /\ \A a, b \in DOMAIN list : a # b => list[a] # list[b]

InCircleDone == mode = "in_circle" /\ pc = "fn_done"

FastDone == mode = "in_circle_fast" /\ pc = "fn_done"

CenterDone == mode = "center" /\ pc = "fn_done"

\* C7: get_merchants_in_circle returns exactly the ids of the rows whose
\* distance to the centre is <= the radius (boundary included), each once and
\* in row order; an empty table or an empty match gives the empty list.
C7_PointsWithinExact ==
    InCircleDone =>
        /\ NamesRowsOnce(result)
        /\ RowsNamed(result) = RowsInside
        /\ \A a, b \in DOMAIN result : a < b => RowOf(result[a]) < RowOf(result[b])

\* a query with a row exactly on the boundary, returned, and a row left out
C7_Witness ==
    /\ InCircleDone
    /\ Len(result) >= 2
    /\ \E i \in RowsNamed(result) : RowDist(i) = radius_meters * center.den
    /\ \E i \in DOMAIN merchant_data : i \notin RowsNamed(result)

\* C8: when more than maxCount >= 1 rows lie within the radius,
\* _get_merchants_in_circle_fast returns exactly maxCount ids, all of rows
\* within the radius, no omitted row within the radius being strictly closer
\* than a returned one, and among rows at equal distance the earlier rows are
\* the ones returned.
C8_CappedClosestInputOrder ==
    (/\ FastDone
     /\ max_merchants_per_circle >= 1
     /\ Cardinality(RowsInside) > max_merchants_per_circle)
        => /\ Len(result) = max_merchants_per_circle
           /\ NamesRowsOnce(result)
           /\ RowsNamed(result) \subseteq RowsInside
           /\ \A i \in RowsNamed(result) : \A j \in RowsInside \ RowsNamed(result) :
                /\ RowDist(i) <= RowDist(j)
                /\ RowDist(i) = RowDist(j) => i < j

\* C9: on a non-empty table with maxCount >= 1, _get_merchants_in_circle_fast
\* returns a non-empty list; when no row lies within the radius it returns
\* exactly one id, of a row at the least distance from the centre.
C9_GuaranteedProgress ==
    (FastDone /\ n_input >= 1 /\ max_merchants_per_circle >= 1)
        => /\ result # <<>>
           /\ RowsInside = {} =>
                /\ Len(result) = 1
                /\ \E i \in DOMAIN merchant_data :
                     /\ result[1] = merchant_data[i].merchant_code
                     /\ \A j \in DOMAIN merchant_data : RowDist(i) <= RowDist(j)

\* no row within the radius, and the closest row is not the first one
C9_Witness ==
    /\ FastDone
    /\ max_merchants_per_circle >= 1
    /\ n_input >= 2
    /\ RowsInside = {}
    /\ Len(result) = 1
    /\ RowDist(1) > RowDist(RowOf(result[1]))

\* C10: on at most 10 rows _find_optimal_center_fast draws no random sample
\* and returns (0, 0) for no row, the coordinates of the row for one row, and
\* the arithmetic mean of the longitudes for 2 to 10 rows: a function of its
\* input alone.
C10_SmallCenterIsMean ==
    (CenterDone /\ n_input <= SmallDatasetLimit)
        => /\ sample_drawn = {}
           /\ n_input = 0 => center = [num |-> 0, den |-> 1]
           /\ n_input = 1 => center = [num |-> merchant_data[1].merchant_longitude, den |-> 1]
           /\ n_input >= 2 =>
                center.num * n_input = center.den * SumLon(merchant_data, 1, n_input)

\* a table of exactly 10 rows whose mean is not a whole number
C10_Witness ==
    /\ CenterDone
    /\ n_input = SmallDatasetLimit
    /\ center.den > 1
    /\ sample_drawn = {}

---------------------------------------------------------------------------
(* C11: the sampled centre selection. *)

\* the candidate centres scored so far: the centroid and the drawn rows
Candidates ==
    {Mean(remaining_data)} \cup {PointCenter(remaining_data[i]) : i \in sample_drawn}

\* the sampling loop holds the best of the candidates scored so far, the
\* centroid whenever no drawn row covers strictly more than it
BestSoFar ==
    /\ sample_drawn \subseteq DOMAIN remaining_data
    /\ best_center \in Candidates
    /\ max_coverage = Coverage(remaining_data, best_center, radius_meters)
    /\ \A c \in Candidates : Coverage(remaining_data, c, radius_meters) <= max_coverage
    /\ Coverage(remaining_data, Mean(remaining_data), radius_meters) = max_coverage
          => best_center = Mean(remaining_data)

\* one pass of the sampling loop scores one row not drawn before, and replaces
\* the incumbent only by a candidate that covers strictly more
DrawKeepsIncumbent ==
    (pc = "sampling") =>
        /\ \E i \in DOMAIN remaining_data :
              i \notin sample_drawn /\ sample_drawn' = sample_drawn \cup {i}
        /\ best_center' # best_center => max_coverage' > max_coverage

\* C11: on more than 10 rows _find_optimal_center_fast scores the centroid and
\* min(15, n) - 1 distinct rows drawn without replacement, and returns a
\* candidate covering at least as many rows as every other candidate; on equal
\* counts the centroid is kept over any drawn row, and an earlier-drawn row
\* over a later one (the incumbent is replaced only by a strictly better one).
C11_SampledCenterBest ==
    /\ []((mode = "center" /\ pc = "sampling") => BestSoFar)
    /\ []((CenterDone /\ n_input > SmallDatasetLimit) =>
            /\ Cardinality(sample_drawn) = Min2(SampleSizeCap, n_input) - 1
            /\ BestSoFar
            /\ center = best_center)
    /\ [][DrawKeepsIncumbent]_vars

\* the centroid was beaten, and two drawn rows at different places tie for
\* the best coverage
C11_Witness ==
    /\ CenterDone
    /\ n_input > SmallDatasetLimit
    /\ center # Mean(merchant_data)
    /\ \E i, j \in sample_drawn :
         /\ merchant_data[i].merchant_longitude # merchant_data[j].merchant_longitude
         /\ Coverage(merchant_data, PointCenter(merchant_data[i]), radius_meters) = max_coverage
         /\ Coverage(merchant_data, PointCenter(merchant_data[j]), radius_meters) = max_coverage

---------------------------------------------------------------------------
(* C12-C14: the records cover builds. *)

\* C12: every circle cover builds, by the main branch, the tail-batch branch,
\* a fallback or the flush loop, carries the radius argument unchanged.
C12_FixedRadius ==
    mode = "cover" => \A t \in DOMAIN circles : circles[t].radius = radius_meters

\* a returned list holding circles of the main loop and of the flush loop
C12_Witness ==
    /\ CoverDone
    /\ Len(circles) > MaxCircleCount + 2
    /\ circles[1].radius = radius_meters
    /\ circles[Len(circles)].radius = radius_meters

\* C13: the circles of one invocation are named "1", "2", ..., "n" in list
\* order, the flush loop continuing the numbering of the main loop, and an
\* invocation starts its list and its counter afresh.
C13_SequentialNames ==
    /\ (mode = "cover" /\ pc # "call") =>
          /\ circle_count = Len(circles)
          /\ \A t \in DOMAIN circles : circles[t].name = StrOfInt(t)
    /\ (mode = "cover" /\ pc = "select" /\ Len(remaining_data) = n_input) =>
          circles = <<>> /\ circle_count = 0

\* the numbering has run through the main loop into the flush loop
C13_Witness ==
    /\ CoverDone
    /\ Len(circles) >= MaxCircleCount + 3
    /\ circles[MaxCircleCount + 3].name = StrOfInt(MaxCircleCount + 3)
    /\ circles[1].name = StrOfInt(1)

\* the circle lists exactly one merchant and is centred on it
SinglePointCircle(circle) ==
    /\ Len(circle.merchants) = 1
    /\ circle.merchant_count = 1
    /\ circle.center = PointCenter(merchant_data[RowOf(circle.merchants[1])])

\* C14: once cover has built more than 100 circles the main loop is left for
\* good, every row still remaining is emitted as its own circle (one member,
\* centred on it, the radius argument), and the returned list holds every
\* input id exactly once.
C14_EscapeHatch ==
    mode = "cover" =>
        /\ circle_count > MaxCircleCount => pc \in {"flush", "done"}
        /\ pc = "flush" => circle_count > MaxCircleCount /\ remaining_data # <<>>
        /\ \A t \in DOMAIN circles :
             t > MaxCircleCount + 1 =>
                 SinglePointCircle(circles[t]) /\ circles[t].radius = radius_meters
        /\ (pc = "done" /\ circle_count > MaxCircleCount) =>
              /\ MemberIds(circles) = IdsOf(merchant_data)
              /\ OverlapCount(circles) = 0
              /\ remaining_data = <<>>

\* the limit was passed with rows remaining, all of them flushed
C14_Witness ==
    /\ CoverDone
    /\ Len(circles) >= MaxCircleCount + 3
    /\ n_input = Len(circles)
    /\ SinglePointCircle(circles[Len(circles)])

---------------------------------------------------------------------------
(* C15-C18: create_visit_circles_with_splitting. *)

SplitDone == mode = "split" /\ pc = "fn_done"

\* the longitudes of the members of a circle, looked up by id
MemberLons(circle) ==
    [j \in DOMAIN circle.merchants |->
        merchant_data[RowOf(circle.merchants[j])].merchant_longitude]

RECURSIVE SeqSum(_)
SeqSum(q) == IF q = <<>> THEN 0 ELSE Head(q) + SeqSum(Tail(q))

\* the largest distance from the centre of a circle to a member, times center.den
MaxMemberDistance(circle) ==
    SetMax({0} \cup {Abs(circle.center.den * MemberLons(circle)[j] - circle.center.num) :
                        j \in DOMAIN circle.merchants})

\* the number of rows in the area exceeds the capacity
Splitting == Cardinality(RowsInside) > max_merchants_per_circle

\* C15: with capacity >= 1 the member lists of the returned circles partition
\* the rows within the radius of the centre argument; at most `capacity` such
\* rows give one circle with the centre, radius and base name passed in; more
\* give chunks of exactly `capacity` members, the last one holding the rest,
\* no member of an earlier chunk being farther from the centre argument than
\* a member of a later chunk.
C15_SplitPartition ==
    (SplitDone /\ max_merchants_per_circle >= 1) =>
        /\ \A i \in DOMAIN merchant_data :
             AssignmentCount(circles, merchant_data[i].merchant_code, 1, Len(circles))
                 = IF i \in RowsInside THEN 1 ELSE 0
        /\ ~Splitting =>
             /\ Len(circles) = 1
             /\ circles[1].center = center
             /\ circles[1].radius = [num |-> radius_meters, den |-> 1]
             /\ circles[1].name = <<"visit_day", 1>>
        /\ Splitting =>
             LET k == max_merchants_per_circle
                 m == Cardinality(RowsInside)
             IN  /\ Len(circles) = CeilDiv(m, k)
                 /\ \A t \in 1..(Len(circles) - 1) : Len(circles[t].merchants) = k
                 /\ Len(circles[Len(circles)].merchants) = m - k * (Len(circles) - 1)
                 /\ \A t, u \in DOMAIN circles :
                      t < u => \A a \in DOMAIN circles[t].merchants :
                                 \A b \in DOMAIN circles[u].merchants :
                                    RowDist(RowOf(circles[t].merchants[a]))
                                        <= RowDist(RowOf(circles[u].merchants[b]))

\* split into two or more chunks, the last one short, the nearest row not
\* the first row, and a row left outside the area
C15_Witness ==
    /\ SplitDone
    /\ max_merchants_per_circle >= 2
    /\ Len(circles) >= 2
    /\ circles[Len(circles)].merchant_count < max_merchants_per_circle
    /\ circles[1].merchants[1] # merchant_data[1].merchant_code
    /\ 1 \in RowsInside
    /\ \E i \in DOMAIN merchant_data : i \notin RowsInside

\* C16: in the splitting branch every sub-circle is centred at the mean of
\* its members, its radius is 1.2 times the largest distance from that centre
\* to a member, and so every member lies within the sub-circle's radius.
C16_SubCircleCoverage ==
    (mode = "split" /\ Splitting) =>
        \A t \in DOMAIN circles :
            LET circle == circles[t]
                c == circle.center
            IN  /\ c.num * Len(circle.merchants) = c.den * SeqSum(MemberLons(circle))
                /\ 5 * circle.radius.num * c.den = 6 * MaxMemberDistance(circle) * circle.radius.den
                /\ \A j \in DOMAIN circle.merchants :
                     Abs(c.den * MemberLons(circle)[j] - c.num) * circle.radius.den
                         <= circle.radius.num * c.den

\* a sub-circle of three members not all at one place, its centre off the grid
C16_Witness ==
    /\ SplitDone
    /\ Splitting
    /\ \E t \in DOMAIN circles :
         /\ Len(circles[t].merchants) = 3
         /\ circles[t].center.den > 1
         /\ circles[t].radius.num > 0

\* C17: every circle of the splitting entry point has radius equal to
\* max(target radius, 1.2 x largest member distance), so never below the
\* target radius.
C17_AutoExpandRadius ==
    mode = "split" =>
        \A t \in DOMAIN circles :
            LET circle == circles[t]
                den == circle.center.den
                grown == 6 * MaxMemberDistance(circle)
                target == 5 * den * radius_meters
            IN  /\ 5 * den * circle.radius.num = Max2(target, grown) * circle.radius.den
                /\ circle.radius.num >= radius_meters * circle.radius.den

\* C18: called with a target radius > 0, every circle built by cover or by
\* the splitting entry point has radius > 0, a sub-circle of one row or of
\* rows at one place included.
C18_PositiveRadius ==
    /\ (mode = "split" /\ radius_meters > 0) =>
          \A t \in DOMAIN circles : circles[t].radius.num > 0
    /\ (mode = "cover" /\ radius_meters > 0) =>
          \A t \in DOMAIN circles : circles[t].radius > 0

---------------------------------------------------------------------------
(* C19-C20: circles and their executives. *)

\* the emp_id of the row of the uploaded table that carries an id
OwnerOf(id) == df[CHOOSE i \in DOMAIN df : Str(df[i].merchant_code) = id].emp_id

\* every member of every circle of a list is a merchant of the circle's executive
MembersOwned(cs) ==
    \A t \in DOMAIN cs : \A j \in DOMAIN cs[t].merchants :
        /\ \E i \in DOMAIN df : Str(df[i].merchant_code) = cs[t].merchants[j]
        /\ OwnerOf(cs[t].merchants[j]) = cs[t].executive

C20_NamesUniquePerOwner ==
    \A t, u \in DOMAIN session_territories :
        (t # u /\ session_territories[t].executive = session_territories[u].executive)
            => session_territories[t].name # session_territories[u].name

---------------------------------------------------------------------------
(* C21-C22: _nearest_neighbor_routing. *)

RouteDone == mode = "route" /\ pc = "fn_done"

\* the place of a circle in the input list (the names of the input differ)
InputIndex(circle) == CHOOSE i \in DOMAIN circles : circles[i] = circle

\* the position the route is at before its p-th circle
PositionBefore(p) == IF p = 1 THEN start_lon ELSE result[p - 1].center

\* C21: for circles with finite centres and a finite start location the
\* routing loop places one circle on every pass, so it ends, and the list
\* returned holds every input circle exactly once and nothing else; a list of
\* 0 or 1 circles is returned as it is.
C21_RoutingPermutation ==
    /\ [](RouteDone =>
            /\ Len(result) = Len(circles)
            /\ \A i \in DOMAIN circles :
                 Cardinality({p \in DOMAIN result : result[p] = circles[i]}) = 1
            /\ Len(circles) <= 1 => result = circles)
    /\ []((mode = "route" /\ pc = "route_loop") => unvisited # <<>>)
    /\ [][(mode = "route" /\ pc = "route_loop") =>
              /\ Len(unvisited') = Len(unvisited) - 1
              /\ Len(route') = Len(route) + 1]_vars

\* four circles routed into an order other than the input order
C21_Witness ==
    /\ RouteDone
    /\ Len(circles) = 4
    /\ result # circles
    /\ result[1] # circles[1]

\* C22: the first circle of the route is at the least distance from the
\* start location among all input circles, every later one at the least
\* distance from its predecessor among the circles not yet placed, and of
\* several circles at that least distance the one earliest in the input list
\* is taken.
C22_GreedyNextHop ==
    (RouteDone /\ Len(circles) >= 2) =>
        \A p \in DOMAIN result : \A q \in DOMAIN result :
            q > p =>
                LET dp == RatDistance(PositionBefore(p), result[p].center)
                    dq == RatDistance(PositionBefore(p), result[q].center)
                IN  /\ ~RatLess(dq, dp)
                    /\ dq = dp => InputIndex(result[p]) < InputIndex(result[q])

\* two circles at different places are equally near the start, the earlier
\* one in the list is taken first, and the route is not the input order
C22_Witness ==
    /\ RouteDone
    /\ Len(circles) >= 3
    /\ result # circles
    /\ \E q \in 2..Len(result) :
         /\ result[q].center # result[1].center
         /\ RatDistance(start_lon, result[q].center) = RatDistance(start_lon, result[1].center)

---------------------------------------------------------------------------
(* C23-C26, C30: assign_visit_days. *)

VisitDone == mode = "visit" /\ pc = "fn_done"

\* the executives of selected_executives
Selected == {selected_executives[p] : p \in DOMAIN selected_executives}

\* the circles of the result that belong to exec_id, and those with a visit_day
CirclesOf(exec_id) ==
    {i \in DOMAIN updated_territories : updated_territories[i].executive = exec_id}

Scheduled == {i \in DOMAIN updated_territories : HasVisitDay(updated_territories[i])}

\* the visit_day values carried by the circles S of the result
DaysOf(S) == {updated_territories[i].visit_day : i \in S}

\* the circles S of exec_id, taken by increasing visit_day, are a route: each
\* is at the least distance from the one before it (the first from the start
\* location of exec_id) among those of S with a later visit_day
InRouteOrder(S, exec_id) ==
    Cardinality(S) >= 2 =>
        LET start == StartLocation(updated_territories, OrderBy(S, [i \in S |-> i]),
                                   exec_id, employee_data)
            day(i) == updated_territories[i].visit_day
            first == SetMin(DaysOf(S))
            before(i) == IF day(i) = first THEN start
                         ELSE updated_territories[CHOOSE j \in S : day(j) = day(i) - 1].center
        IN  \A i \in S : \A j \in S :
                day(j) > day(i) =>
                    ~RatLess(RatDistance(before(i), updated_territories[j].center),
                             RatDistance(before(i), updated_territories[i].center))

\* C23: in per-owner mode with top_count = N >= 0, of the M circles of each
\* selected owner exactly min(N, M) carry a visit_day, their values are
\* exactly 1..min(N, M), each used once, in route order, and the owner's
\* other circles carry no visit_day field.
C23_PerOwnerScoping ==
    (VisitDone /\ assignment_mode = "Per Executive" /\ top_count >= 0) =>
        \A exec_id \in Selected :
            LET own == CirclesOf(exec_id)
                days == own \cap Scheduled
                k == Min2(top_count, Cardinality(own))
            IN  /\ Cardinality(days) = k
                /\ DaysOf(days) = 1..k
                /\ Cardinality(own \ Scheduled) = Cardinality(own) - k
                /\ InRouteOrder(days, exec_id)

\* an owner with three circles and N = 2: two are scheduled, the later one in
\* the list first, and one is left without a visit_day
C23_Witness ==
    /\ VisitDone
    /\ assignment_mode = "Per Executive"
    /\ top_count = 2
    /\ \E exec_id \in Selected :
         /\ Cardinality(CirclesOf(exec_id)) = 3
         /\ Cardinality(CirclesOf(exec_id) \cap Scheduled) = 2
         /\ \E i \in CirclesOf(exec_id) \cap Scheduled :
              \E j \in CirclesOf(exec_id) \cap Scheduled :
                 /\ i < j
                 /\ updated_territories[i].visit_day = 2
                 /\ updated_territories[j].visit_day = 1

\* the circles of the selected executives
SelectedCircles == UNION {CirclesOf(exec_id) : exec_id \in Selected}

\* the ranking scopes of the call: the circles of each selected executive in
\* "Per Executive", the circles of all selected executives otherwise
Scopes ==
    IF assignment_mode = "Per Executive"
    THEN {CirclesOf(exec_id) : exec_id \in Selected}
    ELSE {SelectedCircles}

\* the place of an executive in selected_executives (its first one)
SelectedIndex(exec_id) ==
    SetMin({p \in DOMAIN selected_executives : selected_executives[p] = exec_id})

\* circle i stands before circle j in the list that is ranked: the circles
\* executive by executive in the order of selected_executives, those of one
\* executive in input order
RankedBefore(i, j) ==
    LET pi == SelectedIndex(updated_territories[i].executive)
        pj == SelectedIndex(updated_territories[j].executive)
    IN  pi < pj \/ (pi = pj /\ i < j)

\* C24 as stated: in each ranking scope a circle with a visit_day has at least
\* the merchant_count of every circle without one, and of two circles of equal
\* merchant_count the one earlier in the input list is selected first (here
\* for a top_count >= 0 only).
C24_TopBySizeInputOrder ==
    (VisitDone /\ top_count >= 0) =>
        \A scope \in Scopes : \A i \in scope \cap Scheduled : \A j \in scope \ Scheduled :
            /\ updated_territories[i].merchant_count >= updated_territories[j].merchant_count
            /\ updated_territories[i].merchant_count = updated_territories[j].merchant_count
                   => i < j

\* C24 (amended): in each ranking scope a circle with a visit_day has at least
\* the merchant_count of every circle without one; of two circles of equal
\* merchant_count the one selected first is the one earlier in the ranked
\* list, which holds the circles of the selected executives in the order of
\* selected_executives and the circles of one executive in input order (so in
\* per-owner mode it is the one earlier in the input list).
C24_TopBySizeRankedOrder ==
    VisitDone =>
        \A scope \in Scopes : \A i \in scope \cap Scheduled : \A j \in scope \ Scheduled :
            /\ updated_territories[i].merchant_count >= updated_territories[j].merchant_count
            /\ updated_territories[i].merchant_count = updated_territories[j].merchant_count
                   => RankedBefore(i, j)

\* global mode: of two circles of equal size the later one in the input list
\* is scheduled because its executive comes first in selected_executives, and
\* a larger circle is scheduled as well
C24_Witness ==
    /\ VisitDone
    /\ assignment_mode = "Global Ranking"
    /\ top_count = 2
    /\ \E i \in SelectedCircles \cap Scheduled : \E j \in SelectedCircles \ Scheduled :
         /\ j < i
         /\ updated_territories[i].merchant_count = updated_territories[j].merchant_count
    /\ \E i \in SelectedCircles \cap Scheduled : \E j \in SelectedCircles \ Scheduled :
         updated_territories[i].merchant_count > updated_territories[j].merchant_count

\* the list passed in with every visit_day field removed
Unscheduled(ts) == [i \in DOMAIN ts |-> [f \in DOMAIN ts[i] \ {"visit_day"} |-> ts[i][f]]]

\* C25: the result of assign_visit_days is the one the call gives on the same
\* circles with all visit_day fields removed, whatever visit_day values an
\* earlier call left in its input; a circle of an owner outside the selected
\* list carries no visit_day, and with top_count = N >= 0 no ranking scope
\* has more than N circles with a visit_day.
C25_NoStaleSchedule ==
    VisitDone =>
        /\ updated_territories =
               AssignVisitDaysOf(Unscheduled(session_territories), employee_data, top_count,
                                 assignment_mode, selected_executives)
        /\ \A i \in Scheduled : updated_territories[i].executive \in Selected
        /\ top_count >= 0 => \A scope \in Scopes : Cardinality(scope \cap Scheduled) <= top_count

\* the input carries the schedule of an earlier call: one circle loses its
\* visit_day because its owner is not selected now, another gets a new value
C25_Witness ==
    /\ VisitDone
    /\ \E i \in DOMAIN session_territories :
         /\ HasVisitDay(session_territories[i])
         /\ updated_territories[i].executive \notin Selected
         /\ ~HasVisitDay(updated_territories[i])
    /\ \E i \in DOMAIN session_territories :
         /\ HasVisitDay(session_territories[i])
         /\ updated_territories[i].executive \in Selected
         /\ ~HasVisitDay(updated_territories[i])
    /\ \E i \in DOMAIN session_territories :
         /\ HasVisitDay(session_territories[i])
         /\ HasVisitDay(updated_territories[i])
         /\ updated_territories[i].visit_day # session_territories[i].visit_day

\* selected_executives names no executive twice
DistinctSelected == Cardinality(Selected) = Len(selected_executives)

\* circle i stands before circle j in the descending-merchant_count ranking
Outranks(i, j) ==
    \/ updated_territories[i].merchant_count > updated_territories[j].merchant_count
    \/ /\ updated_territories[i].merchant_count = updated_territories[j].merchant_count
       /\ RankedBefore(i, j)

\* the first circle of S in the ranking
Lead(S) == CHOOSE i \in S : \A j \in S \ {i} : Outranks(i, j)

\* C26: in global mode with distinct selected owners whose circles total T
\* and top_count = N >= 0, the values 1..min(N, T) are assigned, each to one
\* circle; the scheduled circles of one owner carry consecutive values in that
\* owner's route order, and the block of one owner precedes the block of
\* another exactly when its first circle in the descending-merchant_count
\* ranking of the scheduled circles precedes the other's.
C26_GlobalNumbering ==
    (VisitDone /\ assignment_mode = "Global Ranking" /\ DistinctSelected /\ top_count >= 0) =>
        LET k == Min2(top_count, Cardinality(SelectedCircles))
            block(exec_id) == CirclesOf(exec_id) \cap Scheduled
            owners == {exec_id \in Selected : block(exec_id) # {}}
        IN  /\ Cardinality(Scheduled) = k
            /\ DaysOf(Scheduled) = 1..k
            /\ \A exec_id \in owners :
                 /\ SetMax(DaysOf(block(exec_id))) - SetMin(DaysOf(block(exec_id))) + 1
                        = Cardinality(block(exec_id))
                 /\ InRouteOrder(block(exec_id), exec_id)
            /\ \A a \in owners : \A b \in owners \ {a} :
                 SetMin(DaysOf(block(a))) < SetMin(DaysOf(block(b)))
                     <=> Outranks(Lead(block(a)), Lead(block(b)))

\* three circles scheduled for two owners: the owner named second in the
\* selected list has the largest circle and so the first block, and the other
\* owner's two circles are visited in an order other than the input order
C26_Witness ==
    /\ VisitDone
    /\ assignment_mode = "Global Ranking"
    /\ DistinctSelected
    /\ Len(selected_executives) = 2
    /\ Cardinality(Scheduled) = 3
    /\ \E i \in Scheduled :
         /\ updated_territories[i].visit_day = 1
         /\ updated_territories[i].executive = selected_executives[2]
    /\ \E i \in Scheduled : \E j \in Scheduled :
         /\ i < j
         /\ updated_territories[i].executive = selected_executives[1]
         /\ updated_territories[j].executive = selected_executives[1]
         /\ updated_territories[i].visit_day = 3
         /\ updated_territories[j].visit_day = 2

---------------------------------------------------------------------------
(* C27: termination of create_visit_circles_with_splitting. *)

\* the chunk the next pass of the loop takes
NextChunk ==
    PySlice(merchants_in_area, start_idx,
            Min2(start_idx + max_merchants_per_circle, Len(merchants_in_area)))

\* C27: for every table, centre, radius and value of max_merchants_per_circle
\* the chunk loop ends: at the head of a pass the start index is below the
\* number of rows in the area and the chunk is not empty, so the pass adds a
\* circle, and every pass moves the start index forward.
C27_SplittingTerminates ==
    /\ []((mode = "split" /\ pc = "split_loop") =>
            /\ 0 <= start_idx
            /\ start_idx < Len(merchants_in_area)
            /\ NextChunk # <<>>)
    /\ [][(mode = "split" /\ pc = "split_loop") => start_idx' > start_idx]_vars

---------------------------------------------------------------------------
(* C28-C29: radius compliance and the closest-point fallback in cover. *)

\* the places in the member list of a circle whose merchant lies outside the
\* target radius of the circle's centre
OutsideMembers(circle) ==
    {j \in DOMAIN circle.merchants :
        ~Inside(circle.center, MemberLons(circle)[j], radius_meters)}

\* the step appends a circle that lists a merchant outside its radius
AddsOutsideCircle ==
    /\ Len(circles') = Len(circles) + 1
    /\ OutsideMembers(circles'[Len(circles')]) # {}

C29_FallbackReachability ==
    /\ []((mode = "cover" /\ pc = "assign"
             /\ (Len(remaining_data) > SmallDatasetLimit \/ Len(remaining_data) = 1)) =>
            \E i \in DOMAIN remaining_data :
                Inside(center, remaining_data[i].merchant_longitude, radius_meters))
    /\ [][(mode = "cover" /\ AddsOutsideCircle) =>
              /\ Len(remaining_data) >= 2
              /\ Len(remaining_data) <= SmallDatasetLimit]_vars

\* the pool holds more than SmallDatasetLimit rows, its centroid has no row
\* within the radius, and a sampled row has replaced it as the centre
C29_Witness ==
    /\ mode = "cover"
    /\ pc = "assign"
    /\ Len(remaining_data) > SmallDatasetLimit
    /\ Coverage(remaining_data, Mean(remaining_data), radius_meters) = 0
    /\ Coverage(remaining_data, center, radius_meters) >= 1
    /\ center # Mean(remaining_data)

=============================================================================
